---- MODULE Spec2Model ----
(***************************************************************************)
(* ModelDatasetOp::Dataset::Iterator of                                    *)
(* tensorflow/core/kernels/data/model_dataset_op.cc: the callers of        *)
(* GetNextInternal, the optimize thread (ModelThread), the metrics thread  *)
(* (MetricsThread) and the destructor, interleaved at the granularity of   *)
(* lock acquisitions, clock reads and calls into model::Model.             *)
(***************************************************************************)
EXTENDS Integers, Sequences, FiniteSets, TLC

\* ------------------------------------------------------------- bounds

\* The clock reading (microseconds) when the iterator is constructed.
StartClockUs == 1000000
\* GetNextInternal is explored while the clock is below this reading, which
\* keeps the nanosecond timestamps and their sums within the integer range.
NanosClockLimitUs == 1500000
\* Thread scenario: the optimization passes and metrics flushes explored.
MaxPasses == 2
MaxFlushes == 2
\* Call scenario: the GetNext calls explored, and the microseconds by which
\* the clock advances between their clock readings.
MaxPulls == 3
MaxTicks == 1
\* Period scenario: enough passes for the period to reach its threshold.
PeriodPasses == 15
\* Budget scenario: the optimization passes explored.
MaxBudgetPasses == 2
\* Writer::Write calls made on one service-cache Writer.
MaxWrites == 3

\* ---------------------------------------------------- program constants

kOptimizationPeriodThresholdMs == 60000
kInitialOptimizationPeriodMs == 10
kRecordingPeriodMs == 10
\* kRamBudgetShare = 0.5, as a fraction
kRamBudgetShare == [num |-> 1, den |-> 2]
\* model::AutotuneAlgorithm
HILL_CLIMB == 0
GRADIENT_DESCENT == 1

\* ---------------------------------------------------------- processes

Callers == {"caller1", "caller2"}
ModelThreads == {"model1", "model2"}
MetricsThreads == {"metrics1", "metrics2"}
Dtor == "dtor"
Procs == Callers \cup ModelThreads \cup MetricsThreads \cup {Dtor}
NoThread == "none"
NoOne == "nobody"

VARIABLES
  now,                 \* the wall clock, in microseconds
  scenario,            \* the bounds of the explored scenario (never changes)
  attrs,               \* the op's attributes (never changes)
  port,                \* the host: schedulable CPUs, available RAM (never changes)
  op_kernel,           \* ModelDatasetOp: construction status, algorithm_, budgets
  dataset,             \* ModelDatasetOp::Dataset: algorithm_, cpu_budget_, ram_budget_
  cpu_budget_,         \* Iterator::cpu_budget_
  ram_budget_,         \* Iterator::ram_budget_
  pc,                  \* each process's position (source line about to run)
  mu_,                 \* the iterator mutex: exclusive holder, shared holders
  cond_var_,           \* threads blocked in cond_var_.wait_for, not yet notified
  cancelled_,
  model_thread_,
  metrics_thread_,
  model_,              \* "live" until the iterator's reference is released
  num_input_events_,
  input_time_,
  last_output_time_,
  opt,                 \* ModelThread's locals, per thread
  met,                 \* MetricsThread's locals, per thread
  gn,                  \* GetNextInternal's locals, per caller
  dtor_member,         \* index of the next member the destructor destroys
  tree_mu,             \* model::Model's tree lock: exclusive holder, shared holders
  resource_counter,    \* MyResource::counter in the ResourceMgr (-1: not created)
  \* history variables
  num_calls,           \* GetNextInternal calls begun
  ensure_calls,        \* EnsureModelThreadStarted calls made
  passes,              \* Optimize calls begun, per thread
  optimize_calls,      \* the arguments of the Optimize calls made
  flushes,             \* metrics-loop FlushMetrics calls begun, per thread
  iter_steps,          \* the steps of the metrics loop's current iteration, in order
  met_after_cancel,    \* metrics-loop calls begun while cancelled_ was set
  first_wait,          \* wait_ms of the first wait_for of the current iteration (-1: none)
  saw_cancelled,       \* what the optimize loop read at its last check of cancelled_
  opt_after_cancel,    \* Optimize calls begun while cancelled_ was set
  waiting_at_cancel,   \* threads blocked in wait_for when cancelled_ was set
  last_input,          \* the last RecordInput: timestamp and caller
  last_output,         \* the last RecordOutput, with the RecordInput before it
  dcheck_failed,       \* DCHECK_LE in RecordInput failed
  inputs_after_output, \* RecordInput calls made after the first RecordOutput
  writer               \* the service-cache Writer and the calls it has made

vars == <<now, scenario, attrs, port, op_kernel, dataset, cpu_budget_,
          ram_budget_, optimize_calls, iter_steps, met_after_cancel, writer,
          pc, mu_, cond_var_, cancelled_, model_thread_,
          metrics_thread_, model_, num_input_events_, input_time_,
          last_output_time_, opt, met, gn, dtor_member, tree_mu,
          resource_counter, num_calls, ensure_calls, passes, flushes,
          first_wait, saw_cancelled, opt_after_cancel, waiting_at_cancel,
          last_input, last_output, dcheck_failed,
                 inputs_after_output>>

\* ------------------------------------------------------------ helpers

Min(a, b) == IF a < b THEN a ELSE b

Max(a, b) == IF a > b THEN a ELSE b

\* The clock is monotonic and is advanced by the steps that read it: such a
\* step states how much time passed since the previous reading.
Elapsed == {d \in 0..1 : d = 0 \/ now + d <= StartClockUs + scenario.ticks}
ClockAdvances(d) == now' = now + d
ClockStays == now' = now

\* EnvTime::NowNanos() and EnvTime::NowMicros() / EnvTime::kMillisToMicros,
\* as read by the step that evaluates them.
NowNanos == now' * 1000
NowMillis == now' \div 1000

NanosInRange == now <= NanosClockLimitUs

\* A step of the current iteration is noted, and a call begun after the
\* cancellation counted.
Noted(m, step) == iter_steps' = [iter_steps EXCEPT ![m] = Append(@, step)]
CountedAfterCancel(call) ==
  met_after_cancel' = [met_after_cancel EXCEPT ![call] = @ + (IF cancelled_ THEN 1 ELSE 0)]

\* mutex_lock l(mu_) / tf_shared_lock l(mu_)
Unlocked == [excl |-> NoOne, shared |-> {}]
CanLock(m) == m.excl = NoOne /\ m.shared = {}
CanLockShared(m) == m.excl = NoOne
Lock(m, p) == [m EXCEPT !.excl = p]
LockShared(m, p) == [m EXCEPT !.shared = @ \cup {p}]
Unlock(m, p) == [excl |-> IF m.excl = p THEN NoOne ELSE m.excl,
                 shared |-> m.shared \ {p}]
Holds(m, p) == m.excl = p
HoldsShared(m, p) == p \in m.shared

\* ctx->StartThread: the thread object created by the call.
FreshThread(pool) ==
  IF \E t \in pool : pc[t] = "unstarted"
  THEN CHOOSE t \in pool : pc[t] = "unstarted"
  ELSE NoThread

Started(pool) == {t \in pool : pc[t] # "unstarted"}

\* ------------------------------------------------------------- inputs

\* An attribute of the op: whether it is present (HasAttr) and its value.
NoAttr == [has |-> FALSE, value |-> 0]
Attr(v) == [has |-> TRUE, value |-> v]

\* The attributes and the host of the scenarios that explore the threads.
DefaultAttrs ==
  {[algorithm |-> NoAttr, cpu_budget |-> Attr(0), ram_budget |-> NoAttr]}
DefaultPorts == {[NumSchedulableCPUs |-> 2, AvailableRam |-> 9]}

\* The attributes and the hosts of the budget scenario.
BudgetAttrs ==
  {[algorithm |-> a, cpu_budget |-> Attr(c), ram_budget |-> r] :
     a \in {NoAttr, Attr(GRADIENT_DESCENT)},
     c \in {-1, 0, 3},
     r \in {NoAttr, Attr(-1), Attr(0), Attr(5)}}
BudgetPorts ==
  {[NumSchedulableCPUs |-> 2, AvailableRam |-> 8],
   [NumSchedulableCPUs |-> 4, AvailableRam |-> 9]}

\* --------------------------------------------------------------- Init

\* A service-cache Writer before its construction: no asynchronous writer, no
\* error recorded, no call made, the done callback not yet invoked.
NoStatus == "none"
Writer0 ==
  [pc |-> "unconstructed", async_writer_ |-> "null", writer_status_ |-> "OK",
   async_calls |-> <<>>, write_returns |-> <<>>, done_arg |-> NoStatus]

\* The loops and the destructor, after one GetNext call has started them.
ThreadScenario ==
  [pulls |-> 1, passes |-> MaxPasses, flushes |-> MaxFlushes, ticks |-> 0,
   attrs |-> DefaultAttrs, ports |-> DefaultPorts]

\* Concurrent GetNext calls, each loop making one pass.
CallScenario ==
  [pulls |-> MaxPulls, passes |-> 1, flushes |-> 1, ticks |-> MaxTicks,
   attrs |-> DefaultAttrs, ports |-> DefaultPorts]

\* The optimize loop, until its period has reached the threshold.
PeriodScenario ==
  [pulls |-> 1, passes |-> PeriodPasses, flushes |-> 1, ticks |-> 0,
   attrs |-> DefaultAttrs, ports |-> DefaultPorts]

\* The op's construction with valid and invalid budgets, on several hosts.
BudgetScenario ==
  [pulls |-> 1, passes |-> MaxBudgetPasses, flushes |-> 1, ticks |-> 0,
   attrs |-> BudgetAttrs, ports |-> BudgetPorts]

NoDataset == [made |-> FALSE, algorithm_ |-> 0, cpu_budget_ |-> 0, ram_budget_ |-> 0]

OptLocals0 ==
  [last_optimization_ms |-> 0, optimization_period_ms |-> 0,
   current_time_ms |-> 0, wait_ms |-> 0, deadline |-> 0,
   model_input_time |-> [num |-> 0, den |-> 1]]

MetLocals0 ==
  [last_recording_time_ms |-> 0, recording_period_ms |-> 0,
   current_time_ms |-> 0, wait_period_ms |-> 0, deadline |-> 0,
   cancelled_reg |-> FALSE]

InitWith(s) ==
  /\ now = StartClockUs
  /\ scenario = s
  /\ attrs \in s.attrs
  /\ port \in s.ports
  /\ op_kernel = [status |-> "unconstructed", algorithm_ |-> 0,
                  cpu_budget_ |-> 0, ram_budget_ |-> 0]
  /\ dataset = NoDataset
  /\ cpu_budget_ = 0
  /\ ram_budget_ = 0
  /\ optimize_calls = {}
  /\ pc = [p \in Procs |->
             IF p \in Callers THEN "idle"
             ELSE IF p = Dtor THEN "no_iterator" ELSE "unstarted"]
  /\ mu_ = Unlocked
  /\ cond_var_ = {}
  /\ cancelled_ = FALSE
  /\ model_thread_ = NoThread
  /\ metrics_thread_ = NoThread
  /\ model_ = "live"
  /\ num_input_events_ = 0
  /\ input_time_ = 0
  /\ last_output_time_ = 0
  /\ opt = [t \in ModelThreads |-> OptLocals0]
  /\ met = [t \in MetricsThreads |-> MetLocals0]
  /\ gn = [c \in Callers |-> [now_nanos_in |-> 0, now_nanos |-> 0]]
  /\ dtor_member = 0
  /\ tree_mu = Unlocked
  /\ resource_counter = -1
  /\ num_calls = 0
  /\ ensure_calls = 0
  /\ passes = [t \in ModelThreads |-> 0]
  /\ flushes = [t \in MetricsThreads |-> 0]
  /\ iter_steps = [t \in MetricsThreads |-> <<>>]
  /\ met_after_cancel = [ModelFlushMetrics |-> 0, FlushMetrics |-> 0,
                         CollectMetrics |-> 0]
  /\ first_wait = [t \in ModelThreads |-> -1]
  /\ saw_cancelled = [t \in ModelThreads |-> FALSE]
  /\ opt_after_cancel = 0
  /\ waiting_at_cancel = {}
  /\ last_input = [ts |-> 0, by |-> NoOne]
  /\ last_output = [ts |-> 0, by |-> NoOne, in_ts |-> 0, in_by |-> NoOne]
  /\ dcheck_failed = FALSE
  /\ inputs_after_output = 0
  /\ writer = Writer0

Init == InitWith(ThreadScenario)

InitCalls == InitWith(CallScenario)

InitPeriod == InitWith(PeriodScenario)

InitBudgets == InitWith(BudgetScenario)

\* ------------------------------------------------- variable groups

fixedVars == <<scenario, attrs, port, op_kernel, dataset, cpu_budget_, ram_budget_,
               writer>>
iteratorVars == <<now, scenario, attrs, port, op_kernel, dataset, cpu_budget_,
                  ram_budget_, optimize_calls, iter_steps, met_after_cancel,
                  pc, mu_, cond_var_, cancelled_, model_thread_,
                  metrics_thread_, model_, num_input_events_, input_time_,
                  last_output_time_, opt, met, gn, dtor_member, tree_mu,
                  resource_counter, num_calls, ensure_calls, passes, flushes,
                  first_wait, saw_cancelled, opt_after_cancel, waiting_at_cancel,
                  last_input, last_output, dcheck_failed, inputs_after_output>>
passHist == <<passes, optimize_calls>>
metHist == <<flushes, iter_steps, met_after_cancel>>
memberVars == <<model_, dtor_member>>
threadPtrs == <<model_thread_, metrics_thread_>>
inputStats == <<num_input_events_, input_time_, last_output_time_>>
ioHist == <<last_input, last_output, dcheck_failed,
                 inputs_after_output>>
cancelHist == <<opt_after_cancel, waiting_at_cancel>>
optHist == <<passHist, first_wait, saw_cancelled>>
modelSide == <<tree_mu, resource_counter>>

\* ------------------------------------------------------- construction

\* Variant of lines 365 and 373 without the validation.
BudgetAcceptedAlways(b) == TRUE

\* Lines 365, 373: OP_REQUIRES(ctx, budget >= 0, InvalidArgument).
BudgetAccepted(b) == b >= 0

\* Lines 355-376: ModelDatasetOp's constructor. A failed OP_REQUIRES records
\* the error and returns from the constructor.
OpConstruct ==
  /\ op_kernel.status = "unconstructed"
  /\ LET algorithm == IF attrs.algorithm.has THEN attrs.algorithm.value
                      ELSE HILL_CLIMB
         cpu == attrs.cpu_budget.value
         ram == IF attrs.ram_budget.has THEN attrs.ram_budget.value ELSE 0
     IN op_kernel' =
          IF ~BudgetAccepted(cpu)
          THEN [status |-> "InvalidArgument", algorithm_ |-> algorithm,
                cpu_budget_ |-> cpu, ram_budget_ |-> 0]
          ELSE [status |-> IF BudgetAccepted(ram) THEN "OK" ELSE "InvalidArgument",
                algorithm_ |-> algorithm, cpu_budget_ |-> cpu, ram_budget_ |-> ram]
  /\ UNCHANGED <<now, scenario, attrs, port, writer, dataset, cpu_budget_, ram_budget_,
                 pc, mu_, cond_var_, cancelled_, threadPtrs, memberVars,
                 inputStats, opt, met, gn, modelSide, num_calls, ensure_calls,
                 optHist, metHist, cancelHist, ioHist>>

\* Lines 378-382 and 48-55: MakeDataset copies the kernel's algorithm and
\* budgets into the dataset. A kernel whose construction failed is not run.
MakeDataset ==
  /\ op_kernel.status = "OK"
  /\ ~dataset.made
  /\ dataset' = [made |-> TRUE, algorithm_ |-> op_kernel.algorithm_,
                  cpu_budget_ |-> op_kernel.cpu_budget_,
                  ram_budget_ |-> op_kernel.ram_budget_]
  /\ UNCHANGED <<now, scenario, attrs, port, writer, op_kernel, cpu_budget_, ram_budget_,
                 pc, mu_, cond_var_, cancelled_, threadPtrs, memberVars,
                 inputStats, opt, met, gn, modelSide, num_calls, ensure_calls,
                 optHist, metHist, cancelHist, ioHist>>

\* Variant of lines 123-124 that keeps the configured value.
ResolveCpuBudgetKeepsZero(configured) == configured

\* Lines 123-124: cpu_budget_ of the iterator.
ResolveCpuBudget(configured) ==
  IF configured = 0 THEN port.NumSchedulableCPUs ELSE configured

\* Lines 125-127: ram_budget_ of the iterator; the double product is
\* converted to int64.
ResolveRamBudget(configured) ==
  IF configured = 0
  THEN (kRamBudgetShare.num * port.AvailableRam) \div kRamBudgetShare.den
  ELSE configured

\* Lines 69-73 and 121-129: MakeIteratorInternal constructs the iterator.
MakeIterator ==
  /\ dataset.made
  /\ pc[Dtor] = "no_iterator"
  /\ cpu_budget_' = ResolveCpuBudget(dataset.cpu_budget_)
  /\ ram_budget_' = ResolveRamBudget(dataset.ram_budget_)
  /\ pc' = [pc EXCEPT ![Dtor] = "alive"]
  /\ UNCHANGED <<now, scenario, attrs, port, writer, op_kernel, dataset,
                 mu_, cond_var_, cancelled_, threadPtrs, memberVars,
                 inputStats, opt, met, gn, modelSide, num_calls, ensure_calls,
                 optHist, metHist, cancelHist, ioHist>>

\* ---------------------------------------------------- GetNextInternal

\* Variant of line 194 that does not test model_thread_.
NeedModelThreadAlways == TRUE

\* Line 194: if (!model_thread_)
NeedModelThread == model_thread_ = NoThread

\* Variant of line 199 that does not test metrics_thread_.
NeedMetricsThreadAlways == TRUE

\* Line 199: if (!metrics_thread_)
NeedMetricsThread == metrics_thread_ = NoThread

\* Lines 191-207, called by `c`, which goes on at `next`.
EnsureModelThreadStarted(c, next) ==
  LET mt == IF NeedModelThread THEN FreshThread(ModelThreads) ELSE NoThread
      me == IF NeedMetricsThread THEN FreshThread(MetricsThreads) ELSE NoThread
  IN /\ model_thread_' = IF mt # NoThread THEN mt ELSE model_thread_
     /\ metrics_thread_' = IF me # NoThread THEN me ELSE metrics_thread_
     /\ pc' = [p \in Procs |->
                 IF p = c THEN next
                 ELSE IF p # NoThread /\ p \in {mt, me} THEN "start"
                 ELSE pc[p]]
     /\ ensure_calls' = ensure_calls + 1

\* Variant of line 154 that reads EnvTime::NowMicros().
InputTimestampMicros(c) == now'

\* Line 154: the timestamp handed to RecordInput.
InputTimestamp(c) == NowNanos

\* Line 159: the timestamp handed to RecordOutput.
OutputTimestamp(c) == NowNanos

\* Variant of lines 314-320 that adds a sample on every call.
RecordInputUnconditional(c, time_nanos) ==
  /\ dcheck_failed' =
       (dcheck_failed \/ (last_output_time_ # 0 /\ ~(last_output_time_ <= time_nanos)))
  /\ input_time_' = input_time_ + (time_nanos - last_output_time_)
  /\ num_input_events_' = num_input_events_ + 1
  /\ last_input' = [ts |-> time_nanos, by |-> c]
  /\ inputs_after_output' =
       inputs_after_output + (IF last_output.by # NoOne THEN 1 ELSE 0)
  /\ UNCHANGED last_output_time_

\* Lines 314-320.
RecordInput(c, time_nanos) ==
  /\ dcheck_failed' =
       (dcheck_failed \/ (last_output_time_ # 0 /\ ~(last_output_time_ <= time_nanos)))
  /\ input_time_' =
       IF last_output_time_ # 0
       THEN input_time_ + (time_nanos - last_output_time_)
       ELSE input_time_
  /\ num_input_events_' =
       IF last_output_time_ # 0 THEN num_input_events_ + 1 ELSE num_input_events_
  /\ last_input' = [ts |-> time_nanos, by |-> c]
  /\ inputs_after_output' =
       inputs_after_output + (IF last_output.by # NoOne THEN 1 ELSE 0)
  /\ UNCHANGED last_output_time_

\* Lines 322-324.
RecordOutput(c, time_nanos) ==
  /\ last_output_time_' = time_nanos
  /\ last_output' = [ts |-> time_nanos, by |-> c,
                     in_ts |-> last_input.ts, in_by |-> last_input.by]
  /\ UNCHANGED <<input_time_, num_input_events_, last_input, dcheck_failed,
                 inputs_after_output>>

\* Lines 326-332; the quotient of the two doubles is kept as a fraction.
SelfInputTime ==
  IF num_input_events_ = 0
  THEN [num |-> 0, den |-> 1]
  ELSE [num |-> input_time_, den |-> num_input_events_]

\* Lines 146-151: a caller enters GetNextInternal and acquires mu_. The
\* iterator is not destroyed while a call is in progress, and not called once
\* its destruction began.
GetNextLockInput(c) ==
  /\ pc[c] = "idle"
  /\ pc[Dtor] = "alive"
  /\ num_calls < scenario.pulls
  /\ CanLock(mu_)
  /\ mu_' = Lock(mu_, c)
  /\ num_calls' = num_calls + 1
  /\ pc' = [pc EXCEPT ![c] = "L152"]
  /\ UNCHANGED <<now, fixedVars, cond_var_, cancelled_, threadPtrs, memberVars,
                 inputStats, opt, met, gn, modelSide, ensure_calls, metHist,
                 optHist, cancelHist, ioHist>>

\* Lines 152-156: start the threads if necessary, read the clock, RecordInput,
\* release mu_.
GetNextRecordInput(c) ==
  /\ pc[c] = "L152"
  /\ Holds(mu_, c)
  /\ NanosInRange
  /\ \E d \in Elapsed : ClockAdvances(d)
  /\ EnsureModelThreadStarted(c, "L157")
  /\ gn' = [gn EXCEPT ![c].now_nanos_in = InputTimestamp(c)]
  /\ RecordInput(c, InputTimestamp(c))
  /\ mu_' = Unlock(mu_, c)
  /\ UNCHANGED <<fixedVars, cond_var_, cancelled_, memberVars, opt, met,
                 modelSide, num_calls, metHist, optHist, cancelHist, last_output>>

\* Lines 157-159: the upstream pull returns and the clock is read.
GetNextPull(c) ==
  /\ pc[c] = "L157"
  /\ NanosInRange
  /\ \E d \in Elapsed : ClockAdvances(d)
  /\ gn' = [gn EXCEPT ![c].now_nanos = OutputTimestamp(c)]
  /\ pc' = [pc EXCEPT ![c] = "L160"]
  /\ UNCHANGED <<fixedVars, mu_, cond_var_, cancelled_, threadPtrs, memberVars,
                 inputStats, opt, met, modelSide, num_calls, ensure_calls,
                 metHist, optHist, cancelHist, ioHist>>

\* Line 160: mutex_lock l(mu_).
GetNextLockOutput(c) ==
  /\ pc[c] = "L160"
  /\ CanLock(mu_)
  /\ mu_' = Lock(mu_, c)
  /\ pc' = [pc EXCEPT ![c] = "L161"]
  /\ UNCHANGED <<now, fixedVars, cond_var_, cancelled_, threadPtrs, memberVars,
                 inputStats, opt, met, gn, modelSide, num_calls, ensure_calls,
                 metHist, optHist, cancelHist, ioHist>>

\* Lines 161-163: RecordOutput, return (releasing mu_).
GetNextRecordOutput(c) ==
  /\ pc[c] = "L161"
  /\ Holds(mu_, c)
  /\ RecordOutput(c, gn[c].now_nanos)
  /\ mu_' = Unlock(mu_, c)
  /\ gn' = [gn EXCEPT ![c] = [now_nanos_in |-> 0, now_nanos |-> 0]]
  /\ pc' = [pc EXCEPT ![c] = "idle"]
  /\ UNCHANGED <<now, fixedVars, cond_var_, cancelled_, threadPtrs, memberVars,
                 opt, met, modelSide, num_calls, ensure_calls, metHist,
                 optHist, cancelHist>>

\* -------------------------------------------------------- ModelThread

\* Variant of lines 304-307 without the threshold.
NextPeriodUncapped(p) == p * 2

\* Lines 304-307: the period doubles until it reaches the threshold.
NextPeriod(p) ==
  IF p # kOptimizationPeriodThresholdMs
  THEN Min(p * 2, kOptimizationPeriodThresholdMs)
  ELSE p

\* Variant of line 288 that never returns.
ModelThreadNeverReturns == FALSE

\* Line 288: if (cancelled_) return;
ModelThreadReturns == cancelled_

\* Lines 273-276: the thread starts running.
ModelThreadBegin(t) ==
  /\ pc[t] = "start"
  /\ ClockStays
  /\ opt' = [opt EXCEPT ![t] =
               [OptLocals0 EXCEPT !.last_optimization_ms = 0,
                                  !.optimization_period_ms = kInitialOptimizationPeriodMs,
                                  !.current_time_ms = NowMillis]]
  /\ first_wait' = [first_wait EXCEPT ![t] = -1]
  /\ pc' = [pc EXCEPT ![t] = "L279"]
  /\ UNCHANGED <<fixedVars, mu_, cond_var_, cancelled_, threadPtrs, memberVars,
                 inputStats, met, gn, modelSide, num_calls, ensure_calls,
                 passHist, saw_cancelled, metHist, cancelHist, ioHist>>

\* Line 279: mutex_lock l(mu_).
ModelThreadLock(t) ==
  /\ pc[t] = "L279"
  /\ CanLock(mu_)
  /\ mu_' = Lock(mu_, t)
  /\ pc' = [pc EXCEPT ![t] = "L280"]
  /\ UNCHANGED <<now, fixedVars, cond_var_, cancelled_, threadPtrs, memberVars,
                 inputStats, opt, met, gn, modelSide, num_calls, ensure_calls,
                 optHist, metHist, cancelHist, ioHist>>

\* Lines 280-289, holding mu_: either wait_for is entered (mu_ released, the
\* thread blocked), or the loop is left: on cancellation the thread returns,
\* else it goes on to the optimization.
ModelThreadCheck(t) ==
  /\ pc[t] = "L280"
  /\ Holds(mu_, t)
  /\ saw_cancelled' = [saw_cancelled EXCEPT ![t] = cancelled_]
  /\ mu_' = Unlock(mu_, t)
  /\ IF ~cancelled_ /\ opt[t].last_optimization_ms + opt[t].optimization_period_ms
                         > opt[t].current_time_ms
     THEN LET wait_ms == opt[t].last_optimization_ms + opt[t].optimization_period_ms
                           - opt[t].current_time_ms
          IN /\ opt' = [opt EXCEPT ![t].wait_ms = wait_ms,
                                   ![t].deadline = now + wait_ms * 1000]
             /\ first_wait' = [first_wait EXCEPT ![t] =
                                 IF @ = -1 THEN wait_ms ELSE @]
             /\ cond_var_' = cond_var_ \cup {t}
             /\ pc' = [pc EXCEPT ![t] = "L285"]
     ELSE /\ pc' = [pc EXCEPT ![t] = IF ModelThreadReturns THEN "done" ELSE "L292"]
          /\ opt' = IF ModelThreadReturns THEN [opt EXCEPT ![t] = OptLocals0] ELSE opt
          /\ UNCHANGED <<first_wait, cond_var_>>
  /\ UNCHANGED <<now, fixedVars, cancelled_, threadPtrs, memberVars, inputStats, met,
                 gn, modelSide, num_calls, ensure_calls, passHist, metHist,
                 cancelHist, ioHist>>

\* Lines 285-286: wait_for returns once mu_ is reacquired, and the clock is
\* read. It returns when notified, when its timeout has passed, or spuriously.
ModelThreadWake(t) ==
  /\ pc[t] = "L285"
  /\ CanLock(mu_)
  /\ \/ t \notin cond_var_ /\ ClockStays
     \/ passes[t] < scenario.passes /\ now' = Max(now, opt[t].deadline)
     \/ passes[t] < scenario.passes /\ ClockStays
  /\ mu_' = Lock(mu_, t)
  /\ cond_var_' = cond_var_ \ {t}
  /\ opt' = [opt EXCEPT ![t].current_time_ms = NowMillis,
                        ![t].wait_ms = 0, ![t].deadline = 0]
  /\ pc' = [pc EXCEPT ![t] = "L280"]
  /\ UNCHANGED <<fixedVars, cancelled_, threadPtrs, memberVars, inputStats, met,
                 gn, modelSide, num_calls, ensure_calls, optHist, metHist,
                 cancelHist, ioHist>>

\* Line 292: tf_shared_lock l(mu_).
ModelThreadLockShared(t) ==
  /\ pc[t] = "L292"
  /\ CanLockShared(mu_)
  /\ mu_' = LockShared(mu_, t)
  /\ pc' = [pc EXCEPT ![t] = "L293"]
  /\ UNCHANGED <<now, fixedVars, cond_var_, cancelled_, threadPtrs, memberVars,
                 inputStats, opt, met, gn, modelSide, num_calls, ensure_calls,
                 optHist, metHist, cancelHist, ioHist>>

\* Variant of lines 291-294 without the block that ends the shared lock.
ModelThreadSelfInputTimeKeepsLock(t) ==
  /\ pc[t] = "L293"
  /\ HoldsShared(mu_, t)
  /\ opt' = [opt EXCEPT ![t].model_input_time = SelfInputTime]
  /\ pc' = [pc EXCEPT ![t] = "L297"]
  /\ UNCHANGED <<now, fixedVars, mu_, cond_var_, cancelled_, threadPtrs, memberVars,
                 inputStats, met, gn, modelSide, num_calls, ensure_calls,
                 optHist, metHist, cancelHist, ioHist>>

\* Lines 293-294: model_input_time = SelfInputTime(), mu_ released.
ModelThreadSelfInputTime(t) ==
  /\ pc[t] = "L293"
  /\ HoldsShared(mu_, t)
  /\ opt' = [opt EXCEPT ![t].model_input_time = SelfInputTime]
  /\ mu_' = Unlock(mu_, t)
  /\ pc' = [pc EXCEPT ![t] = "L297"]
  /\ UNCHANGED <<now, fixedVars, cond_var_, cancelled_, threadPtrs, memberVars,
                 inputStats, met, gn, modelSide, num_calls, ensure_calls,
                 optHist, metHist, cancelHist, ioHist>>

\* Variant of line 298 that passes the self input time read at line 293.
OptimizeModelInputTimeSelf(t) ==
  opt[t].model_input_time.num \div opt[t].model_input_time.den

\* Line 298: /*model_input_time=*/0
OptimizeModelInputTime(t) == 0

\* Lines 296-298: model_->Optimize(...) is called.
ModelThreadOptimize(t) ==
  /\ pc[t] = "L297"
  /\ passes' = [passes EXCEPT ![t] = @ + 1]
  /\ optimize_calls' = optimize_calls \cup
       {[algorithm |-> dataset.algorithm_, cpu_budget |-> cpu_budget_,
         ram_budget |-> ram_budget_,
         model_input_time |-> OptimizeModelInputTime(t)]}
  /\ opt_after_cancel' = opt_after_cancel + (IF cancelled_ THEN 1 ELSE 0)
  /\ pc' = [pc EXCEPT ![t] = "Optimize"]
  /\ UNCHANGED <<now, fixedVars, mu_, cond_var_, cancelled_, threadPtrs, memberVars,
                 inputStats, opt, met, gn, modelSide, num_calls, ensure_calls,
                 first_wait, saw_cancelled, metHist, waiting_at_cancel,
                 ioHist>>

\* Variant of Optimize that mutates the parameters without the tree lock.
OptimizeWithoutTreeLock(t) ==
  /\ pc[t] = "Optimize"
  /\ pc' = [pc EXCEPT ![t] = "Optimize.mutate"]
  /\ UNCHANGED <<now, fixedVars, mu_, cond_var_, cancelled_, model_thread_,
                 metrics_thread_, model_, dtor_member, num_input_events_,
                 input_time_, last_output_time_, opt, met, gn, tree_mu,
                 resource_counter, num_calls, ensure_calls, passHist, first_wait,
                 saw_cancelled, metHist, opt_after_cancel, waiting_at_cancel,
                 last_input, last_output, dcheck_failed,
                 inputs_after_output>>

\* model::Model::Optimize takes the tree lock for the parameter mutation only.
OptimizeLockTree(t) ==
  /\ pc[t] = "Optimize"
  /\ CanLock(tree_mu)
  /\ tree_mu' = Lock(tree_mu, t)
  /\ pc' = [pc EXCEPT ![t] = "Optimize.mutate"]
  /\ UNCHANGED <<now, fixedVars, mu_, cond_var_, cancelled_, threadPtrs, memberVars,
                 inputStats, opt, met, gn, resource_counter, num_calls,
                 ensure_calls, optHist, metHist, cancelHist, ioHist>>

\* model::Model::Optimize returns; lines 299-309: the period is advanced and
\* the clock read.
OptimizeReturn(t) ==
  /\ pc[t] = "Optimize.mutate"
  /\ ClockStays
  /\ tree_mu' = Unlock(tree_mu, t)
  /\ opt' = [opt EXCEPT ![t].optimization_period_ms = NextPeriod(@),
                        ![t].current_time_ms = NowMillis,
                        ![t].last_optimization_ms = NowMillis]
  /\ pc' = [pc EXCEPT ![t] = "L310"]
  /\ UNCHANGED <<fixedVars, mu_, cond_var_, cancelled_, threadPtrs, memberVars,
                 inputStats, met, gn, resource_counter, num_calls,
                 ensure_calls, optHist, metHist, cancelHist, ioHist>>

\* Lines 310-311: model_->FlushMetrics() (it reads the tree); the next
\* iteration begins.
ModelThreadFlush(t) ==
  /\ pc[t] = "L310"
  /\ CanLockShared(tree_mu)
  /\ first_wait' = [first_wait EXCEPT ![t] = -1]
  /\ opt' = [opt EXCEPT ![t].model_input_time = OptLocals0.model_input_time]
  /\ CountedAfterCancel("ModelFlushMetrics")
  /\ pc' = [pc EXCEPT ![t] = "L279"]
  /\ UNCHANGED <<now, fixedVars, mu_, cond_var_, cancelled_, threadPtrs, memberVars,
                 inputStats, met, gn, modelSide, num_calls,
                 ensure_calls, passHist, saw_cancelled, flushes, iter_steps,
                 cancelHist, ioHist>>

\* ------------------------------------------------------ MetricsThread

\* Variant of line 236 that keeps using the value read before the wait loop.
CancelledReadHoisted(m) == {FALSE}

\* Line 236: if (cancelled_) return;  read without mu_. A write of the
\* destructor since the thread's last locked read is not ordered with this
\* read: it yields the stored value or the value read at line 223.
CancelledReadAt236(m) == {cancelled_, met[m].cancelled_reg}

\* Variant of lines 239-270 that doubles the period as ModelThread does.
NextRecordingPeriodDoubling(p) == Min(p * 2, kOptimizationPeriodThresholdMs)

\* Lines 239-270: the loop body does not assign recording_period_ms.
NextRecordingPeriod(p) == p

\* Lines 214-217: the thread starts running.
MetricsThreadBegin(m) ==
  /\ pc[m] = "start"
  /\ ClockStays
  /\ met' = [met EXCEPT ![m] =
               [MetLocals0 EXCEPT !.last_recording_time_ms = 0,
                                  !.recording_period_ms = kRecordingPeriodMs,
                                  !.current_time_ms = NowMillis]]
  /\ pc' = [pc EXCEPT ![m] = "L222"]
  /\ UNCHANGED <<fixedVars, mu_, cond_var_, cancelled_, threadPtrs, memberVars,
                 inputStats, opt, gn, modelSide, num_calls, ensure_calls,
                 optHist, metHist, cancelHist, ioHist>>

\* Line 222: mutex_lock l(mu_).
MetricsThreadLock(m) ==
  /\ pc[m] = "L222"
  /\ CanLock(mu_)
  /\ mu_' = Lock(mu_, m)
  /\ pc' = [pc EXCEPT ![m] = "L223"]
  /\ UNCHANGED <<now, fixedVars, cond_var_, cancelled_, threadPtrs, memberVars,
                 inputStats, opt, met, gn, modelSide, num_calls, ensure_calls,
                 optHist, metHist, cancelHist, ioHist>>

\* Lines 223-233, holding mu_: either wait_for is entered, or the loop and
\* the locked block are left.
MetricsThreadCheck(m) ==
  /\ pc[m] = "L223"
  /\ Holds(mu_, m)
  /\ mu_' = Unlock(mu_, m)
  /\ IF ~cancelled_ /\ met[m].last_recording_time_ms + met[m].recording_period_ms
                         > met[m].current_time_ms
     THEN LET wait_period_ms ==
                met[m].last_recording_time_ms + met[m].recording_period_ms
                  - met[m].current_time_ms
          IN /\ met' = [met EXCEPT ![m].wait_period_ms = wait_period_ms,
                                   ![m].deadline = now + wait_period_ms * 1000,
                                   ![m].cancelled_reg = cancelled_]
             /\ cond_var_' = cond_var_ \cup {m}
             /\ pc' = [pc EXCEPT ![m] = "L230"]
             /\ IF iter_steps[m] # <<>> /\ iter_steps[m][Len(iter_steps[m])] # "wait_for"
                THEN Noted(m, "wait_for")
                ELSE UNCHANGED iter_steps
     ELSE /\ met' = [met EXCEPT ![m].cancelled_reg = cancelled_]
          /\ pc' = [pc EXCEPT ![m] = "L236"]
          /\ UNCHANGED <<cond_var_, iter_steps>>
  /\ UNCHANGED <<now, fixedVars, cancelled_, threadPtrs, memberVars, inputStats, opt,
                 gn, modelSide, num_calls, ensure_calls, optHist, flushes,
                 met_after_cancel, cancelHist, ioHist>>

\* Lines 230-231: wait_for returns once mu_ is reacquired (notified, on its
\* timeout or spuriously), and the clock is read.
MetricsThreadWake(m) ==
  /\ pc[m] = "L230"
  /\ CanLock(mu_)
  /\ \/ m \notin cond_var_ /\ ClockStays
     \/ flushes[m] < scenario.flushes /\ now' = Max(now, met[m].deadline)
     \/ flushes[m] < scenario.flushes /\ ClockStays
  /\ mu_' = Lock(mu_, m)
  /\ cond_var_' = cond_var_ \ {m}
  /\ met' = [met EXCEPT ![m].current_time_ms = NowMillis,
                        ![m].wait_period_ms = 0, ![m].deadline = 0]
  /\ pc' = [pc EXCEPT ![m] = "L223"]
  /\ UNCHANGED <<fixedVars, cancelled_, threadPtrs, memberVars, inputStats, opt,
                 gn, modelSide, num_calls, ensure_calls, optHist, metHist,
                 cancelHist, ioHist>>

\* The timestamp left in last_recording_time_ms were it advanced only after
\* the export.
LastRecordingTimeDeferred(m) == met[m].last_recording_time_ms

\* Lines 240-241: current_time_ms is read from the clock and assigned to
\* last_recording_time_ms, before FlushMetrics is called at line 242.
LastRecordingTime(m) == NowMillis

\* Variant of lines 235-241 without the return at line 236.
MetricsThreadNeverReturns(m) ==
  /\ pc[m] = "L236"
  /\ ClockStays
  /\ pc' = [pc EXCEPT ![m] = "L242"]
  /\ met' = [met EXCEPT ![m].current_time_ms = NowMillis,
                        ![m].last_recording_time_ms = LastRecordingTime(m)]
  /\ iter_steps' = [iter_steps EXCEPT ![m] = <<"last_recording_time_ms">>]
  /\ UNCHANGED <<fixedVars, mu_, cond_var_, cancelled_, threadPtrs, memberVars,
                 inputStats, opt, gn, modelSide, num_calls, ensure_calls,
                 optHist, flushes, met_after_cancel, cancelHist, ioHist>>

\* Lines 235-241: the thread returns if it reads cancelled_ as set; otherwise
\* the recording time is set to the clock.
MetricsThreadReadCancelled(m) ==
  /\ pc[m] = "L236"
  /\ ClockStays
  /\ \E v \in CancelledReadAt236(m) :
       IF v
       THEN /\ pc' = [pc EXCEPT ![m] = "done"]
            /\ met' = [met EXCEPT ![m] = MetLocals0]
            /\ iter_steps' = [iter_steps EXCEPT ![m] = <<>>]
       ELSE /\ pc' = [pc EXCEPT ![m] = "L242"]
            /\ met' = [met EXCEPT ![m].current_time_ms = NowMillis,
                                  ![m].last_recording_time_ms = LastRecordingTime(m)]
            /\ iter_steps' = [iter_steps EXCEPT ![m] = <<"last_recording_time_ms">>]
  /\ UNCHANGED <<fixedVars, mu_, cond_var_, cancelled_, threadPtrs, memberVars,
                 inputStats, opt, gn, modelSide, num_calls, ensure_calls,
                 optHist, flushes, met_after_cancel, cancelHist, ioHist>>

\* Line 242: model_->FlushMetrics() is called (it reads the tree).
MetricsThreadFlush(m) ==
  /\ pc[m] = "L242"
  /\ CanLockShared(tree_mu)
  /\ tree_mu' = LockShared(tree_mu, m)
  /\ flushes' = [flushes EXCEPT ![m] = @ + 1]
  /\ Noted(m, "FlushMetrics")
  /\ CountedAfterCancel("FlushMetrics")
  /\ pc' = [pc EXCEPT ![m] = "L242.FlushMetrics"]
  /\ UNCHANGED <<now, fixedVars, mu_, cond_var_, cancelled_, threadPtrs, memberVars,
                 inputStats, opt, met, gn, resource_counter, num_calls,
                 ensure_calls, optHist, cancelHist, ioHist>>

\* Lines 242-245: FlushMetrics returns (PrintMetrics only logs).
MetricsThreadFlushReturn(m) ==
  /\ pc[m] = "L242.FlushMetrics"
  /\ tree_mu' = Unlock(tree_mu, m)
  /\ pc' = [pc EXCEPT ![m] = "L249"]
  /\ UNCHANGED <<now, fixedVars, mu_, cond_var_, cancelled_, threadPtrs, memberVars,
                 inputStats, opt, met, gn, resource_counter, num_calls,
                 ensure_calls, optHist, metHist, cancelHist, ioHist>>

\* Line 249: model_->CollectMetrics() is called (it walks the tree under a
\* read lock).
MetricsThreadCollect(m) ==
  /\ pc[m] = "L249"
  /\ CanLockShared(tree_mu)
  /\ tree_mu' = LockShared(tree_mu, m)
  /\ Noted(m, "CollectMetrics")
  /\ CountedAfterCancel("CollectMetrics")
  /\ pc' = [pc EXCEPT ![m] = "L249.CollectMetrics"]
  /\ UNCHANGED <<now, fixedVars, mu_, cond_var_, cancelled_, threadPtrs, memberVars,
                 inputStats, opt, met, gn, resource_counter, num_calls,
                 ensure_calls, optHist, flushes, cancelHist, ioHist>>

\* Lines 249-270: CollectMetrics returns and the snapshot is logged; the
\* resource is created with counter 0, or its counter incremented; the next
\* iteration begins.
MetricsThreadCollectReturn(m) ==
  /\ pc[m] = "L249.CollectMetrics"
  /\ tree_mu' = Unlock(tree_mu, m)
  /\ resource_counter' = IF resource_counter = -1 THEN 0 ELSE resource_counter + 1
  /\ met' = [met EXCEPT ![m].recording_period_ms = NextRecordingPeriod(@)]
  /\ Noted(m, "export")
  /\ pc' = [pc EXCEPT ![m] = "L222"]
  /\ UNCHANGED <<now, fixedVars, mu_, cond_var_, cancelled_, threadPtrs, memberVars,
                 inputStats, opt, gn, num_calls, ensure_calls, optHist,
                 flushes, met_after_cancel, cancelHist, ioHist>>

\* ---------------------------------------------------------- ~Iterator

\* Variant of lines 336-338 with model_ declared after the two threads.
MemberDestructionOrderModelLast ==
  <<"model_", "metrics_thread_", "model_thread_">>

\* The thread and model members, destroyed after the destructor's body in the
\* reverse of their declaration order (lines 336-338).
MemberDestructionOrder ==
  <<"metrics_thread_", "model_thread_", "model_">>

NextMember ==
  IF dtor_member \in 1..Len(MemberDestructionOrder)
  THEN MemberDestructionOrder[dtor_member]
  ELSE "none"

MemberDestroyed ==
  /\ dtor_member' = dtor_member + 1
  /\ pc' = [pc EXCEPT ![Dtor] =
              IF dtor_member = Len(MemberDestructionOrder) THEN "done" ELSE "members"]

\* ~Thread joins the thread.
Joined(t) == IF t = NoThread THEN TRUE ELSE pc[t] = "done"

\* Line 134: the iterator is destroyed (no GetNextInternal call is in
\* progress) and the destructor acquires mu_.
DtorLock ==
  /\ pc[Dtor] = "alive"
  /\ \A c \in Callers : pc[c] = "idle"
  /\ CanLock(mu_)
  /\ mu_' = Lock(mu_, Dtor)
  /\ pc' = [pc EXCEPT ![Dtor] = "L135"]
  /\ UNCHANGED <<now, fixedVars, cond_var_, cancelled_, threadPtrs, memberVars,
                 inputStats, opt, met, gn, modelSide, num_calls, ensure_calls,
                 optHist, metHist, cancelHist, ioHist>>

\* Lines 135-137: cancelled_ = true; cond_var_.notify_all(); the body ends
\* and mu_ is released.
DtorCancel ==
  /\ pc[Dtor] = "L135"
  /\ Holds(mu_, Dtor)
  /\ cancelled_' = TRUE
  /\ waiting_at_cancel' = {t \in ModelThreads \cup MetricsThreads :
                             pc[t] \in {"L285", "L230"}}
  /\ cond_var_' = {}
  /\ mu_' = Unlock(mu_, Dtor)
  /\ dtor_member' = 1
  /\ pc' = [pc EXCEPT ![Dtor] = "members"]
  /\ UNCHANGED <<now, fixedVars, threadPtrs, model_, inputStats, opt,
                 met, gn, modelSide, num_calls, ensure_calls, optHist, metHist,
                 opt_after_cancel, ioHist>>

\* Lines 337-338: a thread member is destroyed, which joins the thread.
DtorJoin ==
  /\ pc[Dtor] = "members"
  /\ \/ NextMember = "metrics_thread_" /\ Joined(metrics_thread_)
     \/ NextMember = "model_thread_" /\ Joined(model_thread_)
  /\ MemberDestroyed
  /\ UNCHANGED <<now, fixedVars, mu_, cond_var_, cancelled_, threadPtrs, model_,
                 inputStats, opt, met, gn, modelSide, num_calls,
                 ensure_calls, optHist, metHist, cancelHist, ioHist>>

\* Line 336: the iterator's reference to the model is released.
DtorReleaseModel ==
  /\ pc[Dtor] = "members"
  /\ NextMember = "model_"
  /\ model_' = "released"
  /\ MemberDestroyed
  /\ UNCHANGED <<now, fixedVars, mu_, cond_var_, cancelled_, threadPtrs,
                 inputStats, opt, met, gn, modelSide, num_calls, ensure_calls,
                 optHist, metHist, cancelHist, ioHist>>

\* ------------------------------------------------------------- Writer

\* The element batches handed to Write and the statuses the asynchronous
\* writer can finish with.
Tensors == {"a", "b"}
Statuses == {"OK", "error"}

\* Lines 8-23: the constructor creates the asynchronous writer.
WriterConstruct ==
  /\ writer.pc = "unconstructed"
  /\ writer' = [writer EXCEPT !.pc = "alive", !.async_writer_ = "live"]
  /\ UNCHANGED iteratorVars

\* Line 28: return Status::OK();
WriteStatus == "OK"

\* Lines 25-29: Write hands the tensors to the asynchronous writer and
\* returns.
WriterWrite(tensors) ==
  /\ writer.pc = "alive"
  /\ Len(writer.write_returns) < MaxWrites
  /\ writer' = [writer EXCEPT
                  !.async_calls = Append(@, [op |-> "Write", tensors |-> tensors]),
                  !.write_returns = Append(@, [status |-> WriteStatus,
                                               done_arg |-> writer.done_arg])]
  /\ UNCHANGED iteratorVars

\* Variant of lines 14-21 with the commented-out lines 16-19 in force.
DoneCallbackPropagates(s) == IF s # "OK" THEN s ELSE writer.writer_status_

\* Lines 14-21: the body of the done callback returns without using s.
DoneCallback(s) == writer.writer_status_

\* Lines 14-21: the asynchronous writer finishes, with either outcome, and
\* invokes the done callback; it does so once, while it exists.
WriterDone(s) ==
  /\ writer.async_writer_ = "live"
  /\ writer.done_arg = NoStatus
  /\ writer' = [writer EXCEPT !.done_arg = s, !.writer_status_ = DoneCallback(s)]
  /\ UNCHANGED iteratorVars

\* Lines 31-33: the destructor signals the end of the sequence.
WriterSignalEOF ==
  /\ writer.pc = "alive"
  /\ writer' = [writer EXCEPT
                  !.pc = "L34",
                  !.async_calls = Append(@, [op |-> "SignalEOF", tensors |-> "none"])]
  /\ UNCHANGED iteratorVars

\* Line 34: async_writer_.reset() destroys the asynchronous writer.
WriterReset ==
  /\ writer.pc = "L34"
  /\ writer' = [writer EXCEPT !.pc = "destroyed", !.async_writer_ = "null"]
  /\ UNCHANGED iteratorVars

\* --------------------------------------------------------------- Next

CallerStep(c) ==
  \/ GetNextLockInput(c)
  \/ GetNextRecordInput(c)
  \/ GetNextPull(c)
  \/ GetNextLockOutput(c)
  \/ GetNextRecordOutput(c)

ModelThreadStep(t) ==
  \/ ModelThreadBegin(t)
  \/ ModelThreadLock(t)
  \/ ModelThreadCheck(t)
  \/ ModelThreadWake(t)
  \/ ModelThreadLockShared(t)
  \/ ModelThreadSelfInputTime(t)
  \/ ModelThreadOptimize(t)
  \/ OptimizeLockTree(t)
  \/ OptimizeReturn(t)
  \/ ModelThreadFlush(t)

MetricsThreadStep(m) ==
  \/ MetricsThreadBegin(m)
  \/ MetricsThreadLock(m)
  \/ MetricsThreadCheck(m)
  \/ MetricsThreadWake(m)
  \/ MetricsThreadReadCancelled(m)
  \/ MetricsThreadFlush(m)
  \/ MetricsThreadFlushReturn(m)
  \/ MetricsThreadCollect(m)
  \/ MetricsThreadCollectReturn(m)

SetupStep ==
  \/ OpConstruct
  \/ MakeDataset
  \/ MakeIterator

DtorStep ==
  \/ DtorLock
  \/ DtorCancel
  \/ DtorJoin
  \/ DtorReleaseModel

Next ==
  \/ \E c \in Callers : CallerStep(c)
  \/ \E t \in ModelThreads : ModelThreadStep(t)
  \/ \E m \in MetricsThreads : MetricsThreadStep(m)
  \/ DtorStep
  \/ SetupStep

Spec == Init /\ [][Next]_vars

SpecCalls == InitCalls /\ [][Next]_vars

SpecPeriod == InitPeriod /\ [][Next]_vars

SpecBudgets == InitBudgets /\ [][Next]_vars

NextWriter ==
  \/ WriterConstruct
  \/ \E tensors \in Tensors : WriterWrite(tensors)
  \/ \E s \in Statuses : WriterDone(s)
  \/ WriterSignalEOF
  \/ WriterReset

SpecWriter == Init /\ [][NextWriter]_vars

\* Every thread that can take a step is eventually scheduled, and a call into
\* model::Model returns.
Fairness ==
  /\ WF_vars(DtorStep)
  /\ \A t \in ModelThreads : WF_vars(ModelThreadStep(t))
  /\ \A m \in MetricsThreads : WF_vars(MetricsThreadStep(m))

FairSpec == Spec /\ Fairness

\* ---------------------------------------------------------- properties

RECURSIVE Pow2(_)
Pow2(n) == IF n = 0 THEN 1 ELSE 2 * Pow2(n - 1)

\* min(10 ms * 2^(k-1), 60000 ms)
PeriodOfPass(k) ==
  Min(kInitialOptimizationPeriodMs * Pow2(k - 1), kOptimizationPeriodThresholdMs)

\* The optimize loop is in its iteration k = passes + 1 and the k-th Optimize
\* call has not begun.
BeforePass(t) == pc[t] \in {"L279", "L280", "L285", "L292", "L293", "L297"}
\* ... and the wait loop of that iteration has been left without cancellation.
AboutToOptimize(t) == pc[t] \in {"L292", "L293", "L297"}

InOptimize(t) == pc[t] \in {"Optimize", "Optimize.mutate"}
InMetricsFlush(m) == pc[m] \in {"L242.FlushMetrics", "L249.CollectMetrics"}

\* C1 as stated: before its k-th optimization pass, for every k >= 1, the
\* optimize loop waits min(10 ms * 2^(k-1), 60000 ms).
C1_WaitBeforeEveryPass ==
  \A t \in ModelThreads :
    AboutToOptimize(t) => first_wait[t] = PeriodOfPass(passes[t] + 1)

\* C1 amended: before its k-th pass the loop's period is
\* min(10 ms * 2^(k-1), 60000 ms); for k >= 2 that is the wait it arms and
\* at least that much time has passed since the previous pass; before the
\* first pass it does not wait at all.
C1_WaitBeforeLaterPasses ==
  \A t \in ModelThreads :
    LET k == passes[t] + 1 IN
    /\ BeforePass(t) =>
         /\ opt[t].optimization_period_ms = PeriodOfPass(k)
         /\ first_wait[t] # -1 => k >= 2 /\ first_wait[t] = PeriodOfPass(k)
    /\ AboutToOptimize(t) =>
         /\ k = 1 => first_wait[t] = -1
         /\ k >= 2 =>
              /\ first_wait[t] = PeriodOfPass(k)
              /\ opt[t].current_time_ms - opt[t].last_optimization_ms
                   >= PeriodOfPass(k)

\* The loop has waited the threshold period, after waiting the last doubled
\* period below it.
C1_Witness ==
  \E t \in ModelThreads :
    /\ pc[t] = "L297"
    /\ passes[t] + 1 >= 14
    /\ first_wait[t] = kOptimizationPeriodThresholdMs
    /\ PeriodOfPass(passes[t]) < kOptimizationPeriodThresholdMs

\* C2 as stated: once cancelled_ is set no Optimize pass begins; cancelled_
\* is never unset and a returned loop stays returned.
C2_NoOptimizeOnceCancelled ==
  [][/\ cancelled_ => cancelled_'
     /\ \A t \in ModelThreads :
          /\ pc[t] = "done" => pc'[t] = "done"
          /\ ~InOptimize(t) /\ InOptimize(t)' => ~cancelled_]_vars

\* C2 amended: an Optimize pass begins only in an iteration whose check of
\* cancelled_ under mu_ (lines 280-288) read it unset, so at most one pass
\* begins after cancelled_ is set; cancelled_ is never unset and a returned
\* loop stays returned.
C2_OptimizeOnlyAfterUnsetCheck ==
  [][/\ cancelled_ => cancelled_'
     /\ opt_after_cancel' <= 1
     /\ \A t \in ModelThreads :
          /\ pc[t] = "done" => pc'[t] = "done"
          /\ ~InOptimize(t) /\ InOptimize(t)' => ~saw_cancelled[t]]_vars

\* A pass began after cancelled_ was set, and the loop has returned since.
C2_Witness ==
  /\ opt_after_cancel = 1
  /\ \E t \in ModelThreads : pc[t] = "done" /\ passes[t] >= 1

\* C3: a loop blocked in wait_for when the destructor sets cancelled_ and
\* notifies returns at its next check without calling Optimize or
\* FlushMetrics, and the destructor's joins complete.
C3_CancelledWaitersExit ==
  /\ [](\A t \in waiting_at_cancel :
          /\ t \in ModelThreads => pc[t] \in {"L285", "L280", "done"}
          /\ t \in MetricsThreads => pc[t] \in {"L230", "L223", "L236", "done"})
  /\ \A t \in ModelThreads \cup MetricsThreads :
       (t \in waiting_at_cancel) ~> (pc[t] = "done")
  /\ cancelled_ ~> (pc[Dtor] = "done")

\* Both loops were blocked in wait_for at the cancellation and the
\* destructor has completed.
C3_Witness ==
  /\ waiting_at_cancel \cap ModelThreads # {}
  /\ waiting_at_cancel \cap MetricsThreads # {}
  /\ pc[Dtor] = "done"

\* The step a process is about to take reads or writes cancelled_.
AccessesCancelled(p) == pc[p] \in {"L135", "L280", "L223", "L236"}

\* C4: every read and write of cancelled_ is made holding mu_.
C4_CancelledAccessedUnderMu ==
  \A p \in Procs : AccessesCancelled(p) => Holds(mu_, p)

\* C5: exactly one optimize thread and one metrics thread are started, by
\* the first EnsureModelThreadStarted call, whatever the number and the
\* interleaving of the GetNext calls.
C5_ThreadsStartedOnce ==
  LET n == IF ensure_calls >= 1 THEN 1 ELSE 0 IN
  /\ Cardinality(Started(ModelThreads)) = n
  /\ Cardinality(Started(MetricsThreads)) = n
  /\ (model_thread_ # NoThread) = (ensure_calls >= 1)
  /\ (metrics_thread_ # NoThread) = (ensure_calls >= 1)

\* Two GetNext calls are in progress, both past EnsureModelThreadStarted.
C5_Witness ==
  /\ ensure_calls >= 2
  /\ \A c \in Callers : pc[c] \in {"L157", "L160", "L161"}
  /\ Cardinality(Started(ModelThreads)) = 1
  /\ Cardinality(Started(MetricsThreads)) = 1

\* The loop is about to call, or is inside, a method of the model.
UsesModel(t) ==
  pc[t] \in {"L297", "Optimize", "Optimize.mutate", "L310", "L242",
             "L242.FlushMetrics", "L249", "L249.CollectMetrics"}

\* C6: the destructor sets cancelled_ and notifies before it joins, joins
\* both threads before it releases the model, and no loop uses a released
\* model.
C6_ModelOutlivesLoops ==
  /\ pc[Dtor] \in {"members", "done"} => cancelled_
  /\ model_ = "released" =>
       \A t \in ModelThreads \cup MetricsThreads : pc[t] \in {"unstarted", "done"}
  /\ \A t \in ModelThreads \cup MetricsThreads : UsesModel(t) => model_ = "live"

\* The model was released after both loops ran and returned.
C6_Witness ==
  /\ model_ = "released"
  /\ \E t \in ModelThreads : pc[t] = "done" /\ passes[t] >= 1
  /\ \E m \in MetricsThreads : pc[m] = "done" /\ flushes[m] >= 1

\* C7: every timestamp passed to RecordOutput is at least the timestamp of
\* the RecordInput call immediately before it.
C7_OutputNotBeforePrecedingInput ==
  last_output.by # NoOne => last_output.ts >= last_output.in_ts

\* C8: with a monotonic clock each pull's output timestamp is at least its
\* input timestamp, and DCHECK_LE(last_output_time_, time_nanos) in
\* RecordInput never fails.
C8_PullOrderedAndDcheckHolds ==
  /\ ~dcheck_failed
  /\ \A c \in Callers :
       pc[c] \in {"L160", "L161"} => gn[c].now_nanos >= gn[c].now_nanos_in

\* A pull whose RecordInput took a sample is about to record a later output
\* timestamp while another call is in progress.
C8_Witness ==
  \E c \in Callers :
    /\ pc[c] = "L161"
    /\ num_input_events_ >= 1
    /\ gn[c].now_nanos > gn[c].now_nanos_in
    /\ \E d \in Callers \ {c} : pc[d] # "idle"

\* C9: at most one Optimize call is in progress.
C9_OneOptimizeAtATime ==
  Cardinality({t \in ModelThreads : InOptimize(t)}) <= 1

\* Optimize is mutating the model after a second GetNext call was made.
C9_Witness ==
  /\ ensure_calls >= 2
  /\ \E t \in ModelThreads : pc[t] = "Optimize.mutate"

\* C10 as stated: the metrics loop's FlushMetrics or CollectMetrics never
\* executes while the optimize loop's Optimize call is in progress.
C10_NoFlushDuringOptimizeCall ==
  \A m \in MetricsThreads, t \in ModelThreads :
    InMetricsFlush(m) => ~InOptimize(t)

\* C10 amended: the metrics loop's FlushMetrics or CollectMetrics never
\* executes while Optimize is mutating the parameters under the tree lock.
C10_NoFlushDuringMutation ==
  \A m \in MetricsThreads, t \in ModelThreads :
    InMetricsFlush(m) => pc[t] # "Optimize.mutate"

\* FlushMetrics executes while the Optimize call is in progress, not yet
\* mutating.
C10_Witness ==
  \E m \in MetricsThreads, t \in ModelThreads :
    pc[m] = "L242.FlushMetrics" /\ pc[t] = "Optimize"

\* The loop is running: its locals exist.
MetricsRunning(m) == pc[m] \notin {"unstarted", "start", "done"}
ModelRunning(t) == pc[t] \notin {"unstarted", "start", "done"}

\* C11: the metrics loop's period is 10 ms in every state of the loop, and
\* every wait it arms is computed from that period and the last recording
\* time alone, whatever the optimize loop's period and pass count.
C11_RecordingPeriodConstant ==
  \A m \in MetricsThreads :
    MetricsRunning(m) =>
      /\ met[m].recording_period_ms = kRecordingPeriodMs
      /\ pc[m] = "L230" =>
           /\ met[m].wait_period_ms =
                met[m].last_recording_time_ms + kRecordingPeriodMs
                  - met[m].current_time_ms
           /\ met[m].wait_period_ms \in 1..kRecordingPeriodMs

\* The metrics loop waits 10 ms after a flush while the optimize loop's
\* period has grown.
C11_Witness ==
  \E m \in MetricsThreads, t \in ModelThreads :
    /\ pc[m] = "L230"
    /\ flushes[m] >= 1
    /\ met[m].wait_period_ms = kRecordingPeriodMs
    /\ passes[t] >= 2
    /\ ModelRunning(t)
    /\ opt[t].optimization_period_ms > 2 * kInitialOptimizationPeriodMs

\* C12: the optimization period starts at 10 ms, becomes
\* min(2 * period, 60000 ms) when an Optimize pass completes and changes at
\* no other step; it stays within [10, 60000] ms, never decreases and stays
\* 60000 ms once it is 60000 ms.
C12_PeriodGrowsToThreshold ==
  [][\A t \in ModelThreads :
       LET p == opt[t].optimization_period_ms
           q == opt'[t].optimization_period_ms
       IN ModelRunning(t)' =>
            /\ q \in kInitialOptimizationPeriodMs..kOptimizationPeriodThresholdMs
            /\ ~ModelRunning(t) => q = kInitialOptimizationPeriodMs
            /\ ModelRunning(t) =>
                 /\ q >= p
                 /\ p = kOptimizationPeriodThresholdMs => q = p
                 /\ IF pc[t] = "Optimize.mutate" /\ pc'[t] = "L310"
                    THEN q = Min(2 * p, kOptimizationPeriodThresholdMs)
                    ELSE q = p]_vars

\* The period is 60000 ms and stayed so over a further pass.
C12_Witness ==
  \E t \in ModelThreads :
    /\ pc[t] = "L310"
    /\ passes[t] >= 15
    /\ opt[t].optimization_period_ms = kOptimizationPeriodThresholdMs

\* The budgets the op was configured with (an absent ram_budget is 0).
ConfiguredCpu == attrs.cpu_budget.value
ConfiguredRam == IF attrs.ram_budget.has THEN attrs.ram_budget.value ELSE 0

IteratorExists == pc[Dtor] # "no_iterator"

\* The budgets C13 expects: the configured value, or the host's default.
ExpectedCpuBudget ==
  IF ConfiguredCpu # 0 THEN ConfiguredCpu ELSE port.NumSchedulableCPUs
ExpectedRamBudget ==
  IF ConfiguredRam # 0 THEN ConfiguredRam
  ELSE CHOOSE h \in 0..port.AvailableRam :
         2 * h <= port.AvailableRam /\ port.AvailableRam < 2 * h + 2

\* C13: the iterator's budgets are resolved when it is constructed and never
\* change: cpu_budget is the configured value, or the number of schedulable
\* CPUs if that is 0; ram_budget is the configured value, or half of the
\* available RAM (as an int64) if that is 0; every Optimize call receives
\* these values.
C13_BudgetsResolvedOnce ==
  /\ [](/\ IteratorExists =>
             cpu_budget_ = ExpectedCpuBudget /\ ram_budget_ = ExpectedRamBudget
        /\ ~IteratorExists => optimize_calls = {}
        /\ \A a \in optimize_calls :
             a.cpu_budget = ExpectedCpuBudget /\ a.ram_budget = ExpectedRamBudget)
  /\ [][IteratorExists =>
          cpu_budget_' = cpu_budget_ /\ ram_budget_' = ram_budget_]_vars

\* Both budgets were configured as 0 and two Optimize passes have begun.
C13_Witness ==
  /\ ConfiguredCpu = 0
  /\ ConfiguredRam = 0
  /\ \E t \in ModelThreads : passes[t] >= 2
  /\ optimize_calls # {}
  /\ port.AvailableRam = 9

Negative(a) == a.has /\ a.value < 0

\* C14: the op's construction fails with InvalidArgument exactly when
\* cpu_budget or ram_budget is negative; otherwise it succeeds with the
\* configured budgets, an absent ram_budget being 0; a dataset, an iterator
\* and an Optimize call exist only for budgets that are not negative.
C14_NegativeBudgetsRejected ==
  /\ op_kernel.status # "unconstructed" =>
       /\ (op_kernel.status = "InvalidArgument")
            = (Negative(attrs.cpu_budget) \/ Negative(attrs.ram_budget))
       /\ op_kernel.status = "OK" =>
            /\ op_kernel.cpu_budget_ = ConfiguredCpu
            /\ op_kernel.ram_budget_ = ConfiguredRam
  /\ dataset.made =>
       /\ op_kernel.status = "OK"
       /\ dataset.cpu_budget_ = ConfiguredCpu /\ dataset.cpu_budget_ >= 0
       /\ dataset.ram_budget_ = ConfiguredRam /\ dataset.ram_budget_ >= 0
  /\ IteratorExists => dataset.made
  /\ optimize_calls # {} => IteratorExists

\* The construction failed on a negative ram_budget after it had accepted
\* the cpu_budget 0.
C14_Witness ==
  /\ op_kernel.status = "InvalidArgument"
  /\ attrs.cpu_budget.value = 0
  /\ Negative(attrs.ram_budget)

HoldsMu(p) == Holds(mu_, p) \/ HoldsShared(mu_, p)

\* C15: the optimize loop does not hold mu_ from its Optimize call to its
\* FlushMetrics call, the metrics loop does not hold it from FlushMetrics
\* to CollectMetrics, and a GetNext caller does not hold it during the
\* upstream pull.
C15_NoMuAcrossModelCalls ==
  /\ \A t \in ModelThreads :
       pc[t] \in {"L297", "Optimize", "Optimize.mutate", "L310"} => ~HoldsMu(t)
  /\ \A m \in MetricsThreads :
       pc[m] \in {"L242", "L242.FlushMetrics", "L249", "L249.CollectMetrics"}
         => ~HoldsMu(m)
  /\ \A c \in Callers : pc[c] = "L157" => ~HoldsMu(c)

\* The destructor holds mu_ while the Optimize call is in progress and
\* FlushMetrics is executing.
C15_Witness ==
  /\ Holds(mu_, Dtor)
  /\ \E t \in ModelThreads : pc[t] = "Optimize"
  /\ \E m \in MetricsThreads : pc[m] = "L242.FlushMetrics"

\* The order of the steps of one iteration of the metrics loop as the code
\* has them, and as the description has them.
IterationOrder ==
  <<"last_recording_time_ms", "FlushMetrics", "CollectMetrics", "export", "wait_for">>
DescribedIterationOrder ==
  <<"FlushMetrics", "CollectMetrics", "export", "last_recording_time_ms", "wait_for">>
IsPrefix(a, b) == Len(a) <= Len(b) /\ a = SubSeq(b, 1, Len(a))

C17_ModelInputTimeZero ==
  /\ \A a \in optimize_calls : a.model_input_time = 0
  /\ \A t \in ModelThreads :
       pc[t] \in {"Optimize", "Optimize.mutate"} => optimize_calls # {}

\* Optimize is in progress in a pass whose SelfInputTime was positive.
C17_Witness ==
  \E t \in ModelThreads :
    /\ pc[t] = "Optimize"
    /\ opt[t].model_input_time.num > 0
    /\ optimize_calls # {}

\* C18: wherever the loops are when cancelled_ is set, the optimization loop
\* begins at most one more Optimize and one more FlushMetrics, the metrics
\* loop at most one more FlushMetrics and one more CollectMetrics, and every
\* started thread then terminates.
C18_AtMostOnePassAfterCancel ==
  /\ [](/\ opt_after_cancel <= 1
        /\ \A call \in DOMAIN met_after_cancel : met_after_cancel[call] <= 1)
  /\ cancelled_ ~>
       (\A t \in ModelThreads \cup MetricsThreads : pc[t] \in {"unstarted", "done"})

\* cancelled_ was set while neither loop was waiting, both loops made one
\* more pass and both threads have terminated.
C18_Witness ==
  /\ cancelled_
  /\ waiting_at_cancel = {}
  /\ opt_after_cancel = 1
  /\ \A call \in DOMAIN met_after_cancel : met_after_cancel[call] = 1
  /\ \E t \in ModelThreads : pc[t] = "done"
  /\ \E m \in MetricsThreads : pc[m] = "done"
  /\ \A t \in ModelThreads \cup MetricsThreads : pc[t] \in {"unstarted", "done"}

\* A caller's step that calls RecordInput (line 155).
CallsRecordInput(c) == pc[c] = "L152" /\ pc'[c] = "L157"

\* C19: a RecordInput made before any RecordOutput adds no sample, and every
\* later one adds one to num_input_events_ and its timestamp less the last
\* output's timestamp to input_time_; so num_input_events_ is the number of
\* RecordInput calls made after the first RecordOutput, input_time_ is
\* non-negative and never decreases, and SelfInputTime is 0 without samples
\* and input_time_ / num_input_events_ with them.
C19_InputTimeAccounting ==
  /\ [](/\ num_input_events_ = inputs_after_output
        /\ input_time_ >= 0
        /\ SelfInputTime = IF inputs_after_output = 0
                           THEN [num |-> 0, den |-> 1]
                           ELSE [num |-> input_time_, den |-> inputs_after_output])
  /\ [][/\ input_time_' >= input_time_
        /\ \A c \in Callers :
             CallsRecordInput(c) =>
               IF last_output.by = NoOne
               THEN /\ num_input_events_' = num_input_events_
                    /\ input_time_' = input_time_
               ELSE /\ num_input_events_' = num_input_events_ + 1
                    /\ input_time_' =
                         input_time_ + (gn'[c].now_nanos_in - last_output.ts)
        /\ (\A c \in Callers : ~CallsRecordInput(c)) =>
             /\ num_input_events_' = num_input_events_
             /\ input_time_' = input_time_]_vars

\* Three pulls were made: the first RecordInput added no sample, the two
\* later ones did, and time passed between an output and the next input.
C19_Witness ==
  /\ num_calls = 3
  /\ num_input_events_ = 2
  /\ input_time_ > 0
  /\ SelfInputTime.den = 2

\* The Write calls and the SignalEOF calls among the calls made on the
\* asynchronous writer.
CallsOf(op) == {i \in DOMAIN writer.async_calls : writer.async_calls[i].op = op}

\* C20: every Write returns OK, whatever status the asynchronous writer
\* finished with, and the Writer records no error; every Write is handed to
\* the asynchronous writer; the destructor signals the end of the sequence
\* once, after every submitted write, and nothing is signalled before it.
C20_WriterNeverReportsFailure ==
  /\ writer.writer_status_ = "OK"
  /\ \A i \in DOMAIN writer.write_returns : writer.write_returns[i].status = "OK"
  /\ Cardinality(CallsOf("Write")) = Len(writer.write_returns)
  /\ IF writer.pc \in {"L34", "destroyed"}
     THEN /\ CallsOf("SignalEOF") = {Len(writer.async_calls)}
          /\ CallsOf("Write") = 1..(Len(writer.async_calls) - 1)
     ELSE CallsOf("SignalEOF") = {}

\* The asynchronous writer had failed before the last of several writes,
\* which returned all the same, and the Writer has been destroyed.
C20_Witness ==
  /\ writer.pc = "destroyed"
  /\ Len(writer.write_returns) >= 2
  /\ writer.write_returns[Len(writer.write_returns)].done_arg = "error"
  /\ writer.done_arg = "error"

====
